---- MODULE Spec2Model ----
(***************************************************************************)
(* Vehicle-position collector: signed request client, route directory      *)
(* cache, parallel fetch, change-detection cache, polling scheduler and    *)
(* the geographic route corrector.                                         *)
(***************************************************************************)
EXTENDS Integers, Sequences, FiniteSets, TLC

(* ------------------------------- bounds -------------------------------- *)
\* largest coordinate upstream reports (coordinates are 0..MaxCoord)
MaxCoord == 2
\* largest upstream timestamp (datetime_utc is 1..MaxTime)
MaxTime == 2
\* longest "runs" list one route answers with
MaxRuns == 2
\* configured poll interval (POLL_INTERVAL), in seconds
PollInterval == 2
\* a cycle takes 0 .. PollInterval + MaxOverrun seconds
MaxOverrun == 1
\* configured worker pool width (PARALLEL_WORKERS)
MaxWorkers == 1

(* --------------------------- program constants ------------------------- *)
CLEANUP_EVERY == 20
STATS_EVERY == 40
CLEANUP_HOURS == 24
HTTP_OK == 200

(* ------------------------- encoding of Python data --------------------- *)
\* Python None, the empty dict {}, a JSON list where a dict was expected.
\* A JSON scalar is None, a number [n |-> 3] or a string [s |-> "3"]; a dict
\* is a record, a missing key a missing field.
None == [py |-> "None"]
EmptyDict == [py |-> "{}"]
JsonList == [py |-> "list"]

\* Python truthiness: `not x`
Falsy(x) == x = None \/ x = EmptyDict \/ x = [n |-> 0] \/ x = [s |-> ""]

\* dict.get(key, default)
Get(d, key, default) == IF key \in DOMAIN d THEN d[key] ELSE default

\* str(x) of a scalar
Str(x) ==
    IF x = None THEN "None"
    ELSE IF "s" \in DOMAIN x THEN x.s
    ELSE ToString(x.n)

\* float(x) of a scalar that is a number
Float(x) == x.n

Max(a, b) == IF a >= b THEN a ELSE b
Abs(a) == IF a >= 0 THEN a ELSE 0 - a

\* the route type the collector is run with (run_collector's default)
ROUTE_TYPE == 0

(* ------------------------- Signed Request Client ----------------------- *)
\* One urlopen() call ends in a response (a status, and a text json.loads
\* parses or not), an HTTPError, a URLError or a timeout.
Malformed == [py |-> "malformed"]

\* make_request that returns the body whatever the status (mutant)
make_request_anystatus(http) ==
    IF http.kind = "response" /\ http.text # Malformed
    THEN http.text
    ELSE None

\* make_request(endpoint, params, timeout): the value returned for the
\* outcome `http` of its single urlopen() call; None on every failure.
make_request(http) ==
    IF http.kind = "response"
    THEN IF http.text = Malformed
         THEN None                      \* json.loads raises: except Exception
         ELSE IF http.status = HTTP_OK
              THEN http.text
              ELSE None
    ELSE None                           \* HTTPError, URLError, socket timeout

\* which branch of make_request the outcome takes: "none" when the body is
\* returned, else the failure that is printed
request_failure(http) ==
    IF http.kind # "response" THEN http.kind
    ELSE IF http.text = Malformed THEN "malformed"
    ELSE IF http.status # HTTP_OK THEN "status"
    ELSE "none"

(* ----------------------------- Route Directory ------------------------- *)
\* the cache with route_type set to route_ids
CachePut(cache, route_type, route_ids) ==
    [t \in DOMAIN cache \cup {route_type} |->
        IF t = route_type THEN route_ids ELSE cache[t]]

\* the request of get_routes and what follows it (lines 119-131)
get_routes_fetch(cache, route_type, http) ==
    LET response == make_request(http) IN
    IF Falsy(response)
    THEN [raised |-> FALSE, value |-> <<>>, cache |-> cache, reply |-> <<response>>]
    ELSE IF response = JsonList
    THEN \* a list has no .get: AttributeError leaves get_routes
         [raised |-> TRUE, value |-> <<>>, cache |-> cache, reply |-> <<response>>]
    ELSE LET routes == Get(response, "routes", <<>>)
             route_ids == [i \in 1..Len(routes) |-> Get(routes[i], "route_id", None)]
         IN [raised |-> FALSE, value |-> route_ids,
             cache |-> CachePut(cache, route_type, route_ids), reply |-> <<response>>]

\* get_routes that never looks the cache up (mutant)
get_routes_nolookup(cache, route_type, use_cache, http) ==
    get_routes_fetch(cache, route_type, http)

\* get_routes that does not cache an empty list (mutant)
get_routes_skipempty(cache, route_type, use_cache, http) ==
    LET r == get_routes_fetch(cache, route_type, http) IN
    IF use_cache /\ route_type \in DOMAIN cache
    THEN [raised |-> FALSE, value |-> cache[route_type], cache |-> cache, reply |-> <<>>]
    ELSE IF r.value = <<>> THEN [r EXCEPT !.cache = cache] ELSE r

\* get_routes that caches the empty list when its request failed (mutant)
get_routes_cachefail(cache, route_type, use_cache, http) ==
    LET r == get_routes_fetch(cache, route_type, http) IN
    IF use_cache /\ route_type \in DOMAIN cache
    THEN [raised |-> FALSE, value |-> cache[route_type], cache |-> cache, reply |-> <<>>]
    ELSE IF Falsy(make_request(http))
    THEN [r EXCEPT !.cache = CachePut(cache, route_type, <<>>)]
    ELSE r

\* get_routes that asks again when the cached list is empty (mutant)
get_routes_refresh(cache, route_type, use_cache, http) ==
    IF use_cache /\ route_type \in DOMAIN cache /\ cache[route_type] # <<>>
    THEN [raised |-> FALSE, value |-> cache[route_type], cache |-> cache, reply |-> <<>>]
    ELSE get_routes_fetch(cache, route_type, http)

\* get_routes(route_type, use_cache): the returned list, the cache afterwards,
\* what its request (if it made one) returned, and whether it raised.
get_routes(cache, route_type, use_cache, http) ==
    IF use_cache /\ route_type \in DOMAIN cache
    THEN [raised |-> FALSE, value |-> cache[route_type], cache |-> cache, reply |-> <<>>]
    ELSE get_routes_fetch(cache, route_type, http)

(* --------------------------- runs of one route ------------------------- *)
\* the runs of `runs` that carry a truthy vehicle_position, in order
RECURSIVE runs_with_positions(_)
runs_with_positions(runs) ==
    IF runs = <<>> THEN <<>>
    ELSE LET run == Head(runs)
             rest == runs_with_positions(Tail(runs))
         IN IF ~Falsy(Get(run, "vehicle_position", None))
            THEN <<run>> \o rest
            ELSE rest

\* get_runs_for_route(route_id, route_type) for the outcome of its request
get_runs_for_route(http) ==
    LET response == make_request(http) IN
    IF Falsy(response)
    THEN [raised |-> FALSE, value |-> <<>>]
    ELSE IF response = JsonList
    THEN [raised |-> TRUE, value |-> <<>>]
    ELSE [raised |-> FALSE,
          value |-> runs_with_positions(Get(response, "runs", <<>>))]

(* -------------------------------- extraction --------------------------- *)
\* _extract_vehicle_data that keeps a run without a latitude, defaulting the
\* coordinate to zero, and keeps a zero bearing (mutant)
extract_vehicle_data_default(run, route_type) ==
    LET pos == Get(run, "vehicle_position", EmptyDict)
        num(x) == IF Falsy(x) THEN 0 ELSE Float(x)
    IN IF Falsy(Get(pos, "longitude", None))
       THEN <<>>
       ELSE << [vehicle_id |-> Str(Get(run, "run_ref", Get(run, "run_id", [s |-> ""]))),
                route_id |-> Str(Get(run, "route_id", [s |-> ""])),
                run_id |-> Str(Get(run, "run_id", [s |-> ""])),
                latitude |-> num(Get(pos, "latitude", None)),
                longitude |-> Float(pos.longitude),
                timestamp |-> Get(pos, "datetime_utc", [s |-> ""]),
                direction_id |-> Get(run, "direction_id", None),
                heading |-> None,
                route_type |-> route_type] >>

\* _extract_vehicle_data(run, route_type): <<>> for None, else <<vehicle>>
extract_vehicle_data(run, route_type) ==
    LET pos == Get(run, "vehicle_position", EmptyDict)
        bearing == Get(pos, "bearing", None)
    IN IF Falsy(Get(pos, "latitude", None)) \/ Falsy(Get(pos, "longitude", None))
       THEN <<>>
       ELSE << [vehicle_id |-> Str(Get(run, "run_ref", Get(run, "run_id", [s |-> ""]))),
                route_id |-> Str(Get(run, "route_id", [s |-> ""])),
                run_id |-> Str(Get(run, "run_id", [s |-> ""])),
                latitude |-> Float(pos.latitude),
                longitude |-> Float(pos.longitude),
                timestamp |-> Get(pos, "datetime_utc", [s |-> ""]),
                direction_id |-> Get(run, "direction_id", None),
                heading |-> IF ~Falsy(bearing) THEN [n |-> Float(bearing)] ELSE None,
                route_type |-> route_type] >>

\* _extract_vehicle_data raises on a run whose vehicle_position is null:
\* run.get("vehicle_position", {}) is None, and None has no .get (line 269)
extract_raises(run) == Get(run, "vehicle_position", EmptyDict) = None

\* the vehicles extracted from a list of runs, in order (lines 231-234)
RECURSIVE extract_all(_, _)
extract_all(runs, route_type) ==
    IF runs = <<>> THEN <<>>
    ELSE extract_vehicle_data(Head(runs), route_type)
             \o extract_all(Tail(runs), route_type)

(* --------------------------- Change-Detection Cache -------------------- *)
\* should_store comparing the latitude only (mutant)
should_store_latonly(positions, vehicle) ==
    IF vehicle.vehicle_id \notin DOMAIN positions
    THEN TRUE
    ELSE Abs(vehicle.latitude - positions[vehicle.vehicle_id].latitude) # 0

\* should_store with a staleness rule on the timestamp (mutant)
should_store_stale(positions, vehicle) ==
    IF vehicle.vehicle_id \notin DOMAIN positions
    THEN TRUE
    ELSE LET last == positions[vehicle.vehicle_id] IN
         \/ vehicle.latitude # last.latitude
         \/ vehicle.longitude # last.longitude
         \/ vehicle.timestamp # last.timestamp

\* should_store(vehicle) against the cache `positions` (self.last_positions)
should_store(positions, vehicle) ==
    IF vehicle.vehicle_id \notin DOMAIN positions
    THEN TRUE
    ELSE LET last == positions[vehicle.vehicle_id]
             lat_diff == Abs(vehicle.latitude - last.latitude)
             lng_diff == Abs(vehicle.longitude - last.longitude)
             position_changed == lat_diff # 0 \/ lng_diff # 0
         IN position_changed

(* ------------------------ Geographic Route Corrector ------------------- *)
\* route_zones.ZONES in declaration order: a route id and its bounding boxes
\* <<min_lng, min_lat, max_lng, max_lat>>. The second zone overlaps the first
\* on the line lng = 2 and its second box lies inside the first zone.
ZONES ==
    << [correct_id |-> "77", bboxes |-> << <<1, 1, 2, 2>> >>],
       [correct_id |-> "88", bboxes |-> << <<2, 0, 3, 1>>, <<1, 2, 1, 2>> >>] >>

\* the zone boxes flattened in scan order: <<correct_id, bbox>>
RECURSIVE ScanOrder(_)
ScanOrder(zones) ==
    IF zones = <<>> THEN <<>>
    ELSE [i \in 1..Len(Head(zones).bboxes) |->
             <<Head(zones).correct_id, Head(zones).bboxes[i]>>]
         \o ScanOrder(Tail(zones))

\* the scan of correct_route_id (lines 16-25) over the boxes left to visit
RECURSIVE scan_zones(_, _, _, _)
scan_zones(boxes, longitude, latitude, route_id) ==
    IF boxes = <<>> THEN route_id
    ELSE LET correct_id == Head(boxes)[1]
             bbox == Head(boxes)[2]
             min_lng == bbox[1]
             min_lat == bbox[2]
             max_lng == bbox[3]
             max_lat == bbox[4]
         IN IF /\ min_lng <= longitude /\ longitude <= max_lng
               /\ min_lat <= latitude /\ latitude <= max_lat
            THEN IF route_id # correct_id THEN correct_id ELSE route_id
            ELSE scan_zones(Tail(boxes), longitude, latitude, route_id)

\* the scan with exclusive bounds (mutant)
RECURSIVE scan_zones_strict(_, _, _, _)
scan_zones_strict(boxes, longitude, latitude, route_id) ==
    IF boxes = <<>> THEN route_id
    ELSE LET correct_id == Head(boxes)[1]
             bbox == Head(boxes)[2]
         IN IF /\ bbox[1] < longitude /\ longitude < bbox[3]
               /\ bbox[2] < latitude /\ latitude < bbox[4]
            THEN correct_id
            ELSE scan_zones_strict(Tail(boxes), longitude, latitude, route_id)

\* correct_route_id with exclusive bounds (mutant)
correct_route_id_strict(longitude, latitude, route_id) ==
    IF route_id = "" THEN route_id
    ELSE scan_zones_strict(ScanOrder(ZONES), longitude, latitude, route_id)

\* correct_route_id(longitude, latitude, route_id, vehicle_id)
correct_route_id(longitude, latitude, route_id) ==
    IF route_id = ""
    THEN route_id
    ELSE scan_zones(ScanOrder(ZONES), longitude, latitude, route_id)

(* ------------------------------ configuration ------------------------- *)
\* _env_bool(name, default) of an environment value ("" stands for unset)
env_bool(val, default) ==
    IF val = "" THEN default
    ELSE val \in {"1", "true", "yes", "on"}

\* load_config that never requires DATABASE_URL (mutant)
load_config_lenient(environ) ==
    [enable_db_write |-> env_bool(environ.ENABLE_DB_WRITE, TRUE),
     missing |-> {k \in {"PTV_USER_ID", "PTV_API_KEY"} : environ[k] = ""}]

\* load_config(): the configuration and the required keys found missing
load_config(environ) ==
    LET enable == env_bool(environ.ENABLE_DB_WRITE, TRUE)
        required == {"PTV_USER_ID", "PTV_API_KEY"}
                        \cup (IF enable THEN {"DATABASE_URL"} ELSE {})
    IN [enable_db_write |-> enable,
        missing |-> {k \in required : environ[k] = ""}]

(* -------------------------------- the sink ----------------------------- *)
\* The table vehicle_locations belongs to the storage backend; the collector
\* only invokes the sink. Each invocation is logged with its batch and result.

\* insert_vehicles_bulk(vehicles): `result` is "commit", "rollback"
\* (execute_values raised: rolled back, 0 returned) or "connect"
\* (_get_connection raised, outside the try)
insert_vehicles_bulk(vehicles, result) ==
    IF vehicles = <<>> THEN [raised |-> FALSE, count |-> 0]
    ELSE IF result = "connect" THEN [raised |-> TRUE, count |-> 0]
    ELSE IF result = "commit" THEN [raised |-> FALSE, count |-> Len(vehicles)]
    ELSE [raised |-> FALSE, count |-> 0]

(* ------------------------------ the upstream --------------------------- *)
\* what the upstream can answer, within the bounds
Timestamps == {[s |-> ToString(t)] : t \in 1..MaxTime}

\* vehicle_position of a run of vehicle v1, which moves along two streets
\* (latitude 1 or longitude 1): null, a dict without a latitude, or a dict
Positions ==
    {None, [latitude |-> None, longitude |-> [n |-> 1], datetime_utc |-> [s |-> "1"],
            bearing |-> [n |-> 0]]}
    \cup {[latitude |-> [n |-> c[1]], longitude |-> [n |-> c[2]], datetime_utc |-> t,
           bearing |-> [n |-> 0]] :
            c \in {x \in (1..MaxCoord) \X (1..MaxCoord) : x[1] = 1 \/ x[2] = 1},
            t \in Timestamps}

\* vehicle v2 is parked
Parked ==
    [latitude |-> [n |-> 1], longitude |-> [n |-> 1], datetime_utc |-> [s |-> "1"],
     bearing |-> [n |-> 0]]

\* the runs the upstream may list for a route: v1 runs on both routes and is
\* always reported with route_id 3, v2 is listed by route 77 only
WorldRuns(route) ==
    IF route = None THEN {}
    ELSE {[run_ref |-> [s |-> "v1"], run_id |-> [n |-> 901], route_id |-> [n |-> 3],
           vehicle_position |-> p] : p \in Positions}
         \cup (IF route = [n |-> 77]
               THEN {[run_ref |-> [s |-> "v2"], run_id |-> [n |-> 902],
                      route_id |-> [n |-> 77], vehicle_position |-> Parked]}
               ELSE {})

\* the lists of at most n runs of S that list no vehicle twice
RECURSIVE RunLists(_, _)
RunLists(S, n) ==
    IF n = 0 THEN {<<>>}
    ELSE LET shorter == RunLists(S, n - 1) IN
         shorter \cup UNION {
             {Append(q, x) : x \in {y \in S : \A i \in DOMAIN q : q[i].run_ref # y.run_ref}} :
             q \in shorter}

\* the outcomes of one urlopen() whose parsable texts are `texts`
HttpOutcomes(texts) ==
    {[kind |-> "response", status |-> HTTP_OK, text |-> t] :
        t \in texts \cup {Malformed, EmptyDict, None, JsonList}}
    \cup {[kind |-> "response", status |-> 202, text |-> t] : t \in {EmptyDict, Malformed}}
    \cup {[kind |-> k, status |-> 500, text |-> Malformed] :
            k \in {"HTTPError", "URLError", "timeout"}}

\* bodies of GET /v3/routes
RoutesTexts ==
    { [routes |-> <<>>],
      [status |-> [s |-> "ok"]],
      [routes |-> << [route_id |-> [n |-> 3]], [route_id |-> [n |-> 77]] >>],
      [routes |-> << [route_id |-> [n |-> 3]], [route_name |-> [s |-> "x"]] >>] }

\* bodies of GET /v3/runs/route/{route_id}/route_type/{n}: a vehicle is
\* listed once; the upstream has no route None
RunsTexts(route) ==
    IF route = None THEN {}
    ELSE {[runs |-> q] : q \in RunLists(WorldRuns(route), MaxRuns)}
         \cup {[status |-> [s |-> "ok"]]}

\* the environments the process may be started in
Environments ==
    {[PTV_USER_ID |-> u, PTV_API_KEY |-> k, DATABASE_URL |-> d, ENABLE_DB_WRITE |-> w] :
        u \in {"", "id"}, k \in {"", "key"}, d \in {"", "url"}, w \in {"", "false"}}
    \ {[PTV_USER_ID |-> "id", PTV_API_KEY |-> "key", DATABASE_URL |-> "url",
        ENABLE_DB_WRITE |-> "false"]}

(* -------------------------------- the state ---------------------------- *)
VARIABLES
    pc,                \* where the scheduler thread is
    environ,           \* os.environ
    route_cache,       \* PTVClient._route_cache: route_type -> list of route ids
    last_positions,    \* VehicleCollector.last_positions: vehicle_id -> vehicle
    route_ids,         \* fetch_vehicles: the resolved route list
    tasks,             \* _fetch_vehicles_parallel: one future per route, with its
                       \* state, its result and how its request failed
    vehicles,          \* the records fanned in so far / returned by the fetch
    idx,               \* collect_once: position of the filter loop
    vehicles_to_store, \* collect_once: the accepted records
    decision,          \* the last should_store call: its inputs and answer
    requests,          \* the requests issued in this cycle, in order
    routes_reply,      \* get_routes: <<response>> of its request, <<>> without one
    sink_log,          \* the sink operations invoked in this cycle, in order
    outcome,           \* how collect_once of this cycle ended
    passes,            \* collect_once calls of this loop iteration
    elapsed,           \* run_forever: elapsed
    sleep_time,        \* run_forever: sleep_time
    arg,               \* argument of a function applied on its own
    ret                \* its result

vars ==
    <<pc, environ, route_cache, last_positions, route_ids, tasks, vehicles, idx,
      vehicles_to_store, decision, requests, routes_reply, sink_log, outcome, passes,
      elapsed, sleep_time, arg, ret>>

\* the locals of one collect_once call and what is logged about it
cycle_vars ==
    <<route_ids, tasks, vehicles, idx, vehicles_to_store, decision, requests,
      routes_reply, sink_log>>

\* a collector that takes writes as enabled whatever the configuration (mutant)
enable_db_write_on == TRUE

\* self.enable_db_write
enable_db_write == load_config(environ).enable_db_write

\* state after construction of nothing yet: the process is about to start
Init ==
    /\ pc = "boot"
    /\ environ \in Environments
    /\ route_cache = <<>>
    /\ last_positions = <<>>
    /\ route_ids = <<>>
    /\ tasks = <<>>
    /\ vehicles = <<>>
    /\ idx = 0
    /\ vehicles_to_store = <<>>
    /\ decision = None
    /\ requests = <<>>
    /\ routes_reply = <<>>
    /\ sink_log = <<>>
    /\ outcome = "none"
    /\ passes = 0
    /\ elapsed = 0
    /\ sleep_time = 0
    /\ arg = None
    /\ ret = <<>>

(* ------------------------------- scheduler ----------------------------- *)
\* collect_once's except clauses, for an Exception that propagates (mutant)
collect_once_except_propagate(exc) == "raise"

\* collect_once's except clauses (lines 151-156): KeyboardInterrupt is raised
\* again, any other Exception is printed and swallowed
collect_once_except(exc) ==
    IF exc = "KeyboardInterrupt" THEN "raise" ELSE "caught"

\* where the scheduler is after an exception `exc` inside collect_once
AfterException(exc) ==
    IF collect_once_except(exc) = "caught" THEN "returned"
    ELSE IF exc = "KeyboardInterrupt" THEN "stopped"
    ELSE "fatal"

\* sleep_time without the clamp at zero (mutant)
sleep_for_unclamped(poll_interval, e) == poll_interval - e

\* run_forever line 192: sleep_time = max(0, self.poll_interval - elapsed)
sleep_for(poll_interval, e) == Max(0, poll_interval - e)

\* the fan-in of one future that drops the batch when the task raised (mutant)
fan_in_abort(collected, res, route_type) ==
    IF res.raised THEN <<>>
    ELSE collected \o extract_all(res.value, route_type)

\* the fan-in of one completed future (lines 227-237): its runs' vehicles are
\* appended; an exception of the task is printed and the loop goes on
fan_in(collected, res, route_type) ==
    IF res.raised THEN collected
    ELSE collected \o extract_all(res.value, route_type)

\* as_completed that stops at the first finished future (mutant)
as_completed_first(ts) == \E i \in DOMAIN ts : ts[i].st = "collected"

\* the as_completed loop (line 225) is over: every future was yielded
as_completed_exhausted(ts) == \A i \in DOMAIN ts : ts[i].st = "collected"

\* a pool that starts a thread for every submitted task (mutant)
worker_free_unbounded(running, max_workers) == TRUE

\* ThreadPoolExecutor(max_workers=...): a worker is free for a queued task
worker_free(running, max_workers) == Cardinality(running) < max_workers

\* run_collector lines 221-228: load_config, then VehicleCollector(config)
Startup ==
    /\ pc = "boot"
    /\ pc' = IF load_config(environ).missing # {} THEN "config_error" ELSE "loop"
    /\ UNCHANGED <<environ, route_cache, last_positions, cycle_vars, outcome,
                   passes, elapsed, sleep_time, arg, ret>>

\* run_forever lines 183-187: top of the loop, collect_once is entered
LoopTop ==
    /\ pc = "loop"
    /\ pc' = "fetch"
    /\ passes' = passes + 1
    /\ outcome' = "running"
    /\ UNCHANGED <<environ, route_cache, last_positions, cycle_vars, elapsed,
                   sleep_time, arg, ret>>

\* fetch_vehicles lines 189-222: resolve the routes, submit one task per route
GetRoutes ==
    /\ pc = "fetch"
    /\ \E http \in HttpOutcomes(RoutesTexts) :
         LET r == get_routes(route_cache, ROUTE_TYPE, TRUE, http) IN
         /\ route_cache' = r.cache
         /\ routes_reply' = r.reply
         /\ requests' = IF r.reply # <<>> THEN Append(requests, "routes") ELSE requests
         /\ IF r.raised
            THEN /\ pc' = AfterException("Exception")
                 /\ outcome' = "error"
                 /\ UNCHANGED <<route_ids, tasks>>
            ELSE IF r.value = <<>>
            THEN /\ pc' = "returned"
                 /\ outcome' = "empty"
                 /\ UNCHANGED <<route_ids, tasks>>
            ELSE /\ pc' = "fanin"
                 /\ outcome' = outcome
                 /\ route_ids' = r.value
                 /\ tasks' = [i \in 1..Len(r.value) |-> [st |-> "pending", res |-> None, failure |-> "none"]]
    /\ UNCHANGED <<environ, last_positions, vehicles, idx, vehicles_to_store,
                   decision, sink_log, passes, elapsed, sleep_time, arg, ret>>

\* the tasks a worker thread is executing
Running == {i \in DOMAIN tasks : tasks[i].st = "running"}

\* a free worker takes the oldest queued task and issues its request
TaskStart(i) ==
    /\ pc \in {"fanin", "stopping"}
    /\ tasks[i].st = "pending"
    /\ \A j \in 1..(i - 1) : tasks[j].st # "pending"
    /\ worker_free(Running, MaxWorkers)
    /\ tasks' = [tasks EXCEPT ![i].st = "running"]
    /\ requests' = Append(requests, Str(route_ids[i]))
    /\ UNCHANGED <<pc, environ, route_cache, last_positions, route_ids, vehicles,
                   idx, vehicles_to_store, decision, routes_reply, sink_log, outcome, passes,
                   elapsed, sleep_time, arg, ret>>

\* a worker that issues its request again when it failed (mutant)
TaskFinish_retry(i) ==
    /\ pc \in {"fanin", "stopping"}
    /\ tasks[i].st = "running"
    /\ \E http \in HttpOutcomes(RunsTexts(route_ids[i])) :
         IF request_failure(http) # "none"
         THEN /\ requests' = Append(requests, Str(route_ids[i]))
              /\ tasks' = tasks
         ELSE /\ requests' = requests
              /\ tasks' = [tasks EXCEPT ![i] = [st |-> "done", res |-> get_runs_for_route(http),
                                               failure |-> request_failure(http)]]
    /\ UNCHANGED <<pc, environ, route_cache, last_positions, route_ids, vehicles,
                   idx, vehicles_to_store, decision, routes_reply, sink_log, outcome,
                   passes, elapsed, sleep_time, arg, ret>>

\* get_runs_for_route returns or raises in its worker
TaskFinish(i) ==
    /\ pc \in {"fanin", "stopping"}
    /\ tasks[i].st = "running"
    /\ \E http \in HttpOutcomes(RunsTexts(route_ids[i])) :
         tasks' = [tasks EXCEPT ![i] = [st |-> "done", res |-> get_runs_for_route(http),
                                        failure |-> request_failure(http)]]
    /\ UNCHANGED <<pc, environ, route_cache, last_positions, route_ids, vehicles,
                   idx, vehicles_to_store, decision, requests, routes_reply, sink_log, outcome,
                   passes, elapsed, sleep_time, arg, ret>>

\* the cache with every vehicle of `batch` written to it, in order
RECURSIVE written(_, _)
written(positions, batch) ==
    IF batch = <<>> THEN positions
    ELSE written([k \in DOMAIN positions \cup {Head(batch).vehicle_id} |->
                     IF k = Head(batch).vehicle_id THEN Head(batch) ELSE positions[k]],
                 Tail(batch))

\* a fan-in that writes the change-detection cache as results arrive, while
\* other tasks are still in flight (mutant)
Collect_streaming(i) ==
    /\ pc = "fanin"
    /\ tasks[i].st = "done"
    /\ vehicles' = fan_in(vehicles, tasks[i].res, ROUTE_TYPE)
    /\ last_positions' = written(last_positions, fan_in(<<>>, tasks[i].res, ROUTE_TYPE))
    /\ tasks' = [tasks EXCEPT ![i].st = "collected"]
    /\ UNCHANGED <<pc, environ, route_cache, route_ids, idx,
                   vehicles_to_store, decision, requests, routes_reply, sink_log, outcome, passes,
                   elapsed, sleep_time, arg, ret>>

\* as_completed yields a finished future and the scheduler fans it in
Collect(i) ==
    /\ pc = "fanin"
    /\ tasks[i].st = "done"
    /\ vehicles' = fan_in(vehicles, tasks[i].res, ROUTE_TYPE)
    /\ tasks' = [tasks EXCEPT ![i].st = "collected"]
    /\ UNCHANGED <<pc, environ, route_cache, last_positions, route_ids, idx,
                   vehicles_to_store, decision, requests, routes_reply, sink_log, outcome, passes,
                   elapsed, sleep_time, arg, ret>>

\* every future was yielded: the executor shuts down, fetch_vehicles returns
\* (its locals are gone), collect_once returns early on an empty list (112-114)
FetchDone ==
    /\ pc = "fanin"
    /\ as_completed_exhausted(tasks)
    /\ IF vehicles = <<>>
       THEN pc' = "returned" /\ outcome' = "empty" /\ idx' = idx
       ELSE pc' = "filter" /\ outcome' = outcome /\ idx' = 1
    /\ route_ids' = <<>>
    /\ tasks' = <<>>
    /\ UNCHANGED <<environ, route_cache, last_positions, vehicles,
                   vehicles_to_store, decision, requests, routes_reply, sink_log, passes, elapsed,
                   sleep_time, arg, ret>>

\* the filter loop of collect_once run to its end (lines 117-122) over the
\* records `vs`, from the cache `positions` and the batch `kept` so far
RECURSIVE filter_loop(_, _, _)
filter_loop(positions, kept, vs) ==
    IF vs = <<>> THEN [vehicles_to_store |-> kept, last_positions |-> positions]
    ELSE IF should_store(positions, Head(vs))
    THEN filter_loop(written(positions, <<Head(vs)>>), Append(kept, Head(vs)), Tail(vs))
    ELSE filter_loop(positions, kept, Tail(vs))

\* the records of every task in submission order (the order of route_ids)
RECURSIVE submission_order(_, _)
submission_order(ts, route_type) ==
    IF ts = <<>> THEN <<>>
    ELSE fan_in(<<>>, Head(ts).res, route_type) \o submission_order(Tail(ts), route_type)

\* a filter loop that updates the cache outside the `if` (mutant)
FilterStep_always_update ==
    /\ pc = "filter"
    /\ LET vehicle == vehicles[idx]
           id == vehicle.vehicle_id
           keep == should_store(last_positions, vehicle)
       IN /\ decision' = [vehicle |-> vehicle,
                          seen |-> id \in DOMAIN last_positions,
                          last |-> IF id \in DOMAIN last_positions
                                   THEN last_positions[id] ELSE None,
                          stored |-> keep]
          /\ vehicles_to_store' =
                 IF keep THEN Append(vehicles_to_store, vehicle) ELSE vehicles_to_store
          /\ last_positions' = written(last_positions, <<vehicle>>)
    /\ idx' = idx + 1
    /\ pc' = IF idx = Len(vehicles) THEN "store" ELSE "filter"
    /\ UNCHANGED <<environ, route_cache, route_ids, tasks, vehicles, requests,
                   routes_reply, sink_log, outcome, passes, elapsed, sleep_time, arg, ret>>

\* one turn of the filter loop (lines 118-122)
FilterStep ==
    /\ pc = "filter"
    /\ LET vehicle == vehicles[idx]
           id == vehicle.vehicle_id
           keep == should_store(last_positions, vehicle)
       IN /\ decision' = [vehicle |-> vehicle,
                          seen |-> id \in DOMAIN last_positions,
                          last |-> IF id \in DOMAIN last_positions
                                   THEN last_positions[id] ELSE None,
                          stored |-> keep]
          /\ vehicles_to_store' =
                 IF keep THEN Append(vehicles_to_store, vehicle) ELSE vehicles_to_store
          /\ last_positions' =
                 IF keep
                 THEN [k \in DOMAIN last_positions \cup {id} |->
                          IF k = id THEN vehicle ELSE last_positions[k]]
                 ELSE last_positions
    /\ idx' = idx + 1
    /\ pc' = IF idx = Len(vehicles) THEN "store" ELSE "filter"
    /\ UNCHANGED <<environ, route_cache, route_ids, tasks, vehicles, requests,
                   routes_reply, sink_log, outcome, passes, elapsed, sleep_time, arg, ret>>

\* a Store that hands every fetched record to the sink (mutant)
Store_unfiltered ==
    /\ pc = "store"
    /\ IF enable_db_write
       THEN \E result \in {"commit", "rollback", "connect"} :
              LET r == insert_vehicles_bulk(vehicles, result) IN
              /\ sink_log' = Append(sink_log, [op |-> "insert_vehicles_bulk",
                                               batch |-> vehicles,
                                               result |-> result])
              /\ pc' = IF r.raised THEN AfterException("Exception") ELSE "periodic"
              /\ outcome' = IF r.raised THEN "error" ELSE outcome
       ELSE /\ pc' = "periodic"
            /\ UNCHANGED <<sink_log, outcome>>
    /\ UNCHANGED <<environ, route_cache, last_positions, route_ids, tasks, vehicles, idx,
                   vehicles_to_store, decision, requests, routes_reply, passes, elapsed,
                   sleep_time, arg, ret>>

\* a Store that takes the batch out of the cache when the sink failed (mutant)
Store_evict ==
    /\ pc = "store"
    /\ IF vehicles_to_store # <<>> /\ enable_db_write
       THEN \E result \in {"commit", "rollback", "connect"} :
              LET r == insert_vehicles_bulk(vehicles_to_store, result) IN
              /\ sink_log' = Append(sink_log, [op |-> "insert_vehicles_bulk",
                                               batch |-> vehicles_to_store,
                                               result |-> result])
              /\ pc' = IF r.raised THEN AfterException("Exception") ELSE "periodic"
              /\ outcome' = IF r.raised THEN "error" ELSE outcome
              /\ last_positions' =
                     IF result = "commit" THEN last_positions
                     ELSE [k \in DOMAIN last_positions \
                                 {vehicles_to_store[i].vehicle_id : i \in DOMAIN vehicles_to_store}
                             |-> last_positions[k]]
       ELSE /\ pc' = "periodic"
            /\ UNCHANGED <<sink_log, outcome, last_positions>>
    /\ UNCHANGED <<environ, route_cache, route_ids, tasks, vehicles, idx,
                   vehicles_to_store, decision, requests, routes_reply, passes, elapsed,
                   sleep_time, arg, ret>>

\* lines 124-137: the batch goes to the sink, or is only printed in dry-run
Store ==
    /\ pc = "store"
    /\ IF vehicles_to_store # <<>> /\ enable_db_write
       THEN \E result \in {"commit", "rollback", "connect"} :
              LET r == insert_vehicles_bulk(vehicles_to_store, result) IN
              /\ sink_log' = Append(sink_log, [op |-> "insert_vehicles_bulk",
                                               batch |-> vehicles_to_store,
                                               result |-> result])
              /\ pc' = IF r.raised THEN AfterException("Exception") ELSE "periodic"
              /\ outcome' = IF r.raised THEN "error" ELSE outcome
       ELSE /\ pc' = "periodic"
            /\ UNCHANGED <<sink_log, outcome>>
    /\ UNCHANGED <<environ, route_cache, last_positions, route_ids, tasks, vehicles, idx,
                   vehicles_to_store, decision, requests, routes_reply, passes, elapsed, sleep_time,
                   arg, ret>>

\* a periodic block that cleans up in every cycle (mutant)
Periodic_every_cycle ==
    /\ pc = "periodic"
    /\ LET n == Cardinality(DOMAIN last_positions)
           cleanup == enable_db_write
           stats == enable_db_write /\ n % STATS_EVERY = 0
       IN \E cleanup_ok \in BOOLEAN, stats_ok \in BOOLEAN :
            /\ cleanup \/ cleanup_ok
            /\ (stats /\ cleanup_ok) \/ stats_ok
            /\ sink_log' = sink_log
                   \o (IF cleanup
                       THEN <<[op |-> "cleanup_old_data", hours |-> CLEANUP_HOURS,
                               batch |-> <<>>,
                               result |-> IF cleanup_ok THEN "commit" ELSE "raise"]>>
                       ELSE <<>>)
                   \o (IF stats /\ cleanup_ok
                       THEN <<[op |-> "get_stats", batch |-> <<>>,
                               result |-> IF stats_ok THEN "commit" ELSE "raise"]>>
                       ELSE <<>>)
            /\ IF cleanup_ok /\ stats_ok
               THEN pc' = "returned" /\ outcome' = "ok"
               ELSE pc' = AfterException("Exception") /\ outcome' = "error"
    /\ UNCHANGED <<environ, route_cache, last_positions, route_ids, tasks, vehicles, idx,
                   vehicles_to_store, decision, requests, routes_reply, passes, elapsed,
                   sleep_time, arg, ret>>

\* lines 139-149: periodic cleanup and stats; either may raise
Periodic ==
    /\ pc = "periodic"
    /\ LET n == Cardinality(DOMAIN last_positions)
           cleanup == enable_db_write /\ n % CLEANUP_EVERY = 0
           stats == enable_db_write /\ n % STATS_EVERY = 0
       IN \E cleanup_ok \in BOOLEAN, stats_ok \in BOOLEAN :
            /\ cleanup \/ cleanup_ok
            /\ (stats /\ cleanup_ok) \/ stats_ok
            /\ sink_log' = sink_log
                   \o (IF cleanup
                       THEN <<[op |-> "cleanup_old_data", hours |-> CLEANUP_HOURS,
                               batch |-> <<>>,
                               result |-> IF cleanup_ok THEN "commit" ELSE "raise"]>>
                       ELSE <<>>)
                   \o (IF stats /\ cleanup_ok
                       THEN <<[op |-> "get_stats", batch |-> <<>>,
                               result |-> IF stats_ok THEN "commit" ELSE "raise"]>>
                       ELSE <<>>)
            /\ IF cleanup_ok /\ stats_ok
               THEN pc' = "returned" /\ outcome' = "ok"
               ELSE pc' = AfterException("Exception") /\ outcome' = "error"
    /\ UNCHANGED <<environ, route_cache, last_positions, route_ids, tasks, vehicles, idx,
                   vehicles_to_store, decision, requests, routes_reply, passes, elapsed, sleep_time,
                   arg, ret>>

\* the locals of collect_once, and what was logged about the call, are gone
LocalsGone ==
    /\ route_ids' = <<>>
    /\ tasks' = <<>>
    /\ vehicles' = <<>>
    /\ idx' = 0
    /\ vehicles_to_store' = <<>>
    /\ decision' = None
    /\ requests' = <<>>
    /\ routes_reply' = <<>>
    /\ sink_log' = <<>>

\* a scheduler that drops the cache after a cycle that received nothing (mutant)
Timing_evict ==
    /\ pc = "returned"
    /\ \E e \in 0..(PollInterval + MaxOverrun) :
         /\ elapsed' = e
         /\ sleep_time' = sleep_for(PollInterval, e)
    /\ pc' = "sleep"
    /\ LocalsGone
    /\ last_positions' = IF outcome = "empty" THEN <<>> ELSE last_positions
    /\ UNCHANGED <<environ, route_cache, outcome, passes, arg, ret>>

\* run_forever lines 188-197: collect_once has returned; elapsed and sleep_time
Timing ==
    /\ pc = "returned"
    /\ \E e \in 0..(PollInterval + MaxOverrun) :
         /\ elapsed' = e
         /\ sleep_time' = sleep_for(PollInterval, e)
    /\ pc' = "sleep"
    /\ LocalsGone
    /\ UNCHANGED <<environ, route_cache, last_positions, outcome, passes, arg, ret>>

\* run_forever line 199: time.sleep(sleep_time) returns, the loop goes round
Sleep ==
    /\ pc = "sleep"
    /\ pc' = "loop"
    /\ passes' = 0
    /\ outcome' = "none"
    /\ elapsed' = 0
    /\ sleep_time' = 0
    /\ UNCHANGED <<environ, route_cache, last_positions, cycle_vars, arg, ret>>

\* a stop signal that leaves the executor without waiting for its tasks (mutant)
Stop_kill ==
    /\ pc \in {"loop", "fetch", "fanin", "filter", "store", "periodic", "returned", "sleep"}
    /\ pc' = AfterException("KeyboardInterrupt")
    /\ LocalsGone
    /\ UNCHANGED <<environ, route_cache, last_positions, outcome, passes, elapsed,
                   sleep_time, arg, ret>>

\* KeyboardInterrupt in the scheduler thread. Inside the executor's with block
\* the executor first waits for its tasks (shutdown(wait=True)).
Stop ==
    /\ pc \in {"loop", "fetch", "fanin", "filter", "store", "periodic", "returned", "sleep"}
    /\ IF pc = "fanin"
       THEN pc' = "stopping" /\ UNCHANGED cycle_vars
       ELSE pc' = AfterException("KeyboardInterrupt") /\ LocalsGone
    /\ UNCHANGED <<environ, route_cache, last_positions, outcome, passes, elapsed,
                   sleep_time, arg, ret>>

\* the executor has joined its workers: KeyboardInterrupt leaves run_forever
Shutdown ==
    /\ pc = "stopping"
    /\ \A i \in DOMAIN tasks : tasks[i].st \in {"done", "collected"}
    /\ pc' = AfterException("KeyboardInterrupt")
    /\ LocalsGone
    /\ UNCHANGED <<environ, route_cache, last_positions, outcome, passes, elapsed,
                   sleep_time, arg, ret>>

\* the steps of the scheduler thread and of the workers
Step ==
    \/ Startup
    \/ LoopTop
    \/ GetRoutes
    \/ \E i \in DOMAIN tasks : TaskStart(i)
    \/ \E i \in DOMAIN tasks : TaskFinish(i)
    \/ \E i \in DOMAIN tasks : Collect(i)
    \/ FetchDone
    \/ FilterStep
    \/ Store
    \/ Periodic
    \/ Timing
    \/ Sleep
    \/ Shutdown

Next == Step \/ Stop

Spec == Init /\ [][Next]_vars

\* the scheduler thread and the workers keep running; the stop signal is
\* external and need not come
FairSpec == Spec /\ WF_vars(Step)

(* --------------------------- a long-running process -------------------- *)
\* the cache of a collector that has accepted n vehicles which are no longer
\* reported
Settled(n) ==
    [id \in {"p" \o ToString(i) : i \in 1..n} |->
        [vehicle_id |-> id, route_id |-> "3", run_id |-> id, latitude |-> 1,
         longitude |-> 1, timestamp |-> [s |-> "1"], direction_id |-> None,
         heading |-> None, route_type |-> ROUTE_TYPE]]

\* the collector between two cycles, one accepted vehicle short of a periodic
\* cleanup, or of a cleanup with stats
InitLongRun ==
    /\ pc = "loop"
    /\ environ \in {e \in Environments : load_config(e).missing = {}}
    /\ route_cache \in {<<>>, CachePut(<<>>, ROUTE_TYPE, <<[n |-> 3], [n |-> 77]>>)}
    /\ last_positions \in {Settled(CLEANUP_EVERY - 1), Settled(STATS_EVERY - 1)}
    /\ route_ids = <<>>
    /\ tasks = <<>>
    /\ vehicles = <<>>
    /\ idx = 0
    /\ vehicles_to_store = <<>>
    /\ decision = None
    /\ requests = <<>>
    /\ routes_reply = <<>>
    /\ sink_log = <<>>
    /\ outcome = "none"
    /\ passes = 0
    /\ elapsed = 0
    /\ sleep_time = 0
    /\ arg = None
    /\ ret = <<>>

\* the steps of a process that is past its startup
NextLongRun ==
    \/ LoopTop
    \/ GetRoutes
    \/ \E i \in DOMAIN tasks : TaskStart(i)
    \/ \E i \in DOMAIN tasks : TaskFinish(i)
    \/ \E i \in DOMAIN tasks : Collect(i)
    \/ FetchDone
    \/ FilterStep
    \/ Store
    \/ Periodic
    \/ Timing
    \/ Sleep
    \/ Shutdown
    \/ Stop

SpecLongRun == InitLongRun /\ [][NextLongRun]_vars

(* ------------------- functions applied on their own -------------------- *)
\* the outcomes of one urlopen() that make_request is applied to
RequestInputs ==
    {[kind |-> "response", status |-> st, text |-> t] :
        st \in {HTTP_OK, 201, 202, 204},
        t \in RoutesTexts \cup RunsTexts([n |-> 77])
                \cup {Malformed, EmptyDict, None, JsonList}}
    \cup {[kind |-> "HTTPError", status |-> st, text |-> Malformed] :
            st \in {400, 403, 404, 429, 500, 503}}
    \cup {[kind |-> k, status |-> 0, text |-> Malformed] : k \in {"URLError", "timeout"}}

\* the arguments correct_route_id is applied to
CorrectInputs ==
    {[longitude |-> x, latitude |-> y, route_id |-> r] :
        x \in 0..(MaxCoord + 2), y \in 0..(MaxCoord + 2), r \in {"", "3", "77", "88"}}

\* everything but pc, arg, ret and requests is as after construction
Idle ==
    /\ environ = [PTV_USER_ID |-> "id", PTV_API_KEY |-> "key", DATABASE_URL |-> "url",
                  ENABLE_DB_WRITE |-> ""]
    /\ route_cache = <<>>
    /\ last_positions = <<>>
    /\ route_ids = <<>>
    /\ tasks = <<>>
    /\ vehicles = <<>>
    /\ idx = 0
    /\ vehicles_to_store = <<>>
    /\ decision = None
    /\ requests = <<>>
    /\ routes_reply = <<>>
    /\ sink_log = <<>>
    /\ outcome = "none"
    /\ passes = 0
    /\ elapsed = 0
    /\ sleep_time = 0
    /\ ret = <<>>

InitRequest == pc = "call" /\ arg \in RequestInputs /\ Idle

\* one make_request call: one urlopen(), one returned value
CallRequest ==
    /\ pc = "call"
    /\ pc' = "done"
    /\ requests' = Append(requests, "urlopen")
    /\ ret' = <<make_request(arg)>>
    /\ UNCHANGED <<environ, route_cache, last_positions, route_ids, tasks, vehicles,
                   idx, vehicles_to_store, decision, routes_reply, sink_log, outcome,
                   passes, elapsed, sleep_time, arg>>

SpecRequest == InitRequest /\ [][CallRequest]_vars

InitCorrect == pc = "call" /\ arg \in CorrectInputs /\ Idle

\* one correct_route_id call
CallCorrect ==
    /\ pc = "call"
    /\ pc' = "done"
    /\ ret' = <<correct_route_id(arg.longitude, arg.latitude, arg.route_id)>>
    /\ UNCHANGED <<environ, route_cache, last_positions, cycle_vars, outcome,
                   passes, elapsed, sleep_time, arg>>

SpecCorrect == InitCorrect /\ [][CallCorrect]_vars

\* a key that the upstream left out of a dict
Absent == [py |-> "absent"]

\* a vehicle_position dict with the given latitude, longitude and bearing,
\* each a JSON value or left out
PositionDict(latitude, longitude, bearing) ==
    [k \in {"datetime_utc"}
            \cup (IF latitude # Absent THEN {"latitude"} ELSE {})
            \cup (IF longitude # Absent THEN {"longitude"} ELSE {})
            \cup (IF bearing # Absent THEN {"bearing"} ELSE {}) |->
        CASE k = "latitude" -> latitude
          [] k = "longitude" -> longitude
          [] k = "bearing" -> bearing
          [] OTHER -> [s |-> "1"]]

\* a run with the given reference code and run id, each a JSON value or left
\* out, and without a vehicle_position
RunDict(run_ref, run_id) ==
    [k \in {"route_id"}
            \cup (IF run_ref # Absent THEN {"run_ref"} ELSE {})
            \cup (IF run_id # Absent THEN {"run_id"} ELSE {}) |->
        CASE k = "run_ref" -> run_ref
          [] k = "run_id" -> run_id
          [] OTHER -> [n |-> 3]]

\* the runs _extract_vehicle_data is applied to: the reference code left out,
\* null or a string, the run id left out or a number; vehicle_position left
\* out, null, or a dict whose latitude, longitude and bearing are left out,
\* null, zero or another number
ExtractInputs ==
    LET coords == {Absent, None, [n |-> 0], [n |-> 1], [n |-> MaxCoord]}
        bearings == {Absent, None, [n |-> 0], [n |-> 90]}
        refs == {Absent, None, [s |-> "v1"]}
        ids == {Absent, [n |-> 901], [n |-> 902]}
        with(base, p) == [k \in DOMAIN base \cup {"vehicle_position"} |->
                             IF k = "vehicle_position" THEN p ELSE base[k]]
    IN UNION {
         {base, with(base, None), with(base, EmptyDict)}
         \cup {with(base, PositionDict(la, lo, b)) :
                 la \in coords, lo \in coords, b \in bearings} :
         base \in {RunDict(rr, ri) : rr \in refs, ri \in ids}}

InitExtract == pc = "call" /\ arg \in ExtractInputs /\ Idle

\* one _extract_vehicle_data call: it raises, returns None or returns a record
CallExtract ==
    /\ pc = "call"
    /\ pc' = "done"
    /\ ret' = <<[raised |-> extract_raises(arg),
                 value |-> IF extract_raises(arg) THEN <<>>
                           ELSE extract_vehicle_data(arg, ROUTE_TYPE)]>>
    /\ UNCHANGED <<environ, route_cache, last_positions, cycle_vars, outcome,
                   passes, elapsed, sleep_time, arg>>

SpecExtract == InitExtract /\ [][CallExtract]_vars

Corrected(v) == v.route_id = correct_route_id(v.longitude, v.latitude, v.route_id)

\* C2: every record that reaches change detection, and every record handed to
\* the sink, carries the route_id the Geographic Route Corrector gives it: a
\* record inside a zone's box reported with another route_id carries the zone's.
C2_RecordsPassCorrector ==
    /\ \A i \in DOMAIN vehicles : Corrected(vehicles[i])
    /\ \A i \in DOMAIN vehicles_to_store : Corrected(vehicles_to_store[i])
    /\ \A k \in DOMAIN sink_log :
         \A i \in DOMAIN sink_log[k].batch : Corrected(sink_log[k].batch[i])

\* the task failed: its request failed, or its body was not a dict
Failed(task) == task.failure # "none" \/ task.res.raised

\* the number of records the collected tasks owe the result
RECURSIVE RecordsOwed(_)
RecordsOwed(ts) ==
    IF ts = <<>> THEN 0
    ELSE (IF Head(ts).st = "collected" /\ ~Failed(Head(ts))
          THEN Len(extract_all(Head(ts).res.value, ROUTE_TYPE))
          ELSE 0) + RecordsOwed(Tail(ts))

\* a step out of the fan-in does not end in an exception, and the fetch
\* returns what was fanned in once every task was collected
FanInStep ==
    pc = "fanin" =>
        /\ pc' \in {"fanin", "filter", "returned", "stopping"}
        /\ outcome' # "error"
        /\ (pc' \in {"filter", "returned"} =>
              /\ vehicles' = vehicles
              /\ \A i \in DOMAIN tasks : tasks[i].st = "collected")

ErrorReturns == outcome' = "error" /\ outcome # "error" => pc' = "returned"

\* C4: an exception inside a collection cycle never leaves collect_once (the
\* scheduler is never killed by one), and once collect_once has returned, with
\* an error or without, the scheduler sleeps and then enters the next cycle,
\* unless the stop signal comes first.
C4_SchedulerSurvives ==
    /\ [](pc # "fatal")
    /\ [][ErrorReturns]_vars
    /\ (pc = "returned") ~> (pc = "fetch" \/ pc = "stopped")

\* a cycle ended in an exception and the scheduler is in its sleep
C4_Witness ==
    /\ pc = "sleep"
    /\ outcome = "error"
    /\ passes = 1

\* a cached route list stays, and is answered without a request
CacheHitStep ==
    ROUTE_TYPE \in DOMAIN route_cache =>
        /\ route_cache' = route_cache
        /\ (pc = "fetch" /\ pc' # "stopped" =>
              /\ requests' = requests
              /\ routes_reply' = <<>>
              /\ route_ids' = route_cache[ROUTE_TYPE]
              /\ pc' = IF route_cache[ROUTE_TYPE] = <<>> THEN "returned" ELSE "fanin")

\* the call that fills the cache returns the list it caches
CacheFillStep ==
    ROUTE_TYPE \notin DOMAIN route_cache /\ ROUTE_TYPE \in DOMAIN route_cache' =>
        /\ pc = "fetch"
        /\ route_ids' = route_cache'[ROUTE_TYPE]

\* C5: once the cache holds a list for the route type, the entry never changes,
\* and get_routes with use_cache answers it without a request; the list the
\* first call returned is the list it cached.
C5_CacheHit == [][CacheHitStep /\ CacheFillStep]_vars

\* a later cycle: the cached, non-empty list was returned without a request
C5_Witness ==
    /\ pc = "fanin"
    /\ ROUTE_TYPE \in DOMAIN route_cache
    /\ route_ids = route_cache[ROUTE_TYPE]
    /\ route_ids # <<>>
    /\ routes_reply = <<>>
    /\ requests = <<>>
    /\ last_positions # <<>>

\* a response body that is a dict
IsDict(body) == body \notin {None, JsonList, Malformed}

\* a body that lists no route: the empty dict, or a dict whose "routes" is
\* empty or missing
ListsNoRoute(body) == IsDict(body) /\ Get(body, "routes", <<>>) = <<>>

\* a cached empty list stays, and is answered without a request
EmptyStickyStep ==
    ROUTE_TYPE \in DOMAIN route_cache /\ route_cache[ROUTE_TYPE] = <<>> =>
        /\ route_cache' = route_cache
        /\ (pc = "fetch" /\ pc' # "stopped" =>
              pc' = "returned" /\ outcome' = "empty" /\ requests' = requests)

\* C6 as amended: when the routes request yields a non-empty body that lists
\* no route, get_routes returns the empty list without an error and caches it;
\* from then on the entry stays empty and every call returns the empty list
\* without a request.
C6_EmptyListCached ==
    /\ [](pc = "returned" /\ routes_reply # <<>> =>
            (ListsNoRoute(routes_reply[1]) /\ ~Falsy(routes_reply[1]) =>
                /\ ROUTE_TYPE \in DOMAIN route_cache
                /\ route_cache[ROUTE_TYPE] = <<>>
                /\ outcome = "empty"))
    /\ [][EmptyStickyStep]_vars

\* a later cycle was answered the cached empty list without a request
C6_Witness ==
    /\ pc = "returned"
    /\ ROUTE_TYPE \in DOMAIN route_cache
    /\ route_cache[ROUTE_TYPE] = <<>>
    /\ routes_reply = <<>>
    /\ requests = <<>>
    /\ outcome = "empty"

\* C6 as stated: whenever the routes request yields an empty response (a body
\* that lists no route), the empty list is in the cache afterwards.
C6_EmptyResponseCached ==
    pc = "returned" /\ routes_reply # <<>> /\ ListsNoRoute(routes_reply[1]) =>
        /\ ROUTE_TYPE \in DOMAIN route_cache
        /\ route_cache[ROUTE_TYPE] = <<>>

\* a filter turn on a record at its vehicle's cached position
SuppressStep ==
    pc = "filter" /\ pc' \in {"filter", "store"} =>
        LET vehicle == vehicles[idx]
            id == vehicle.vehicle_id
        IN (/\ id \in DOMAIN last_positions
            /\ vehicle.latitude = last_positions[id].latitude
            /\ vehicle.longitude = last_positions[id].longitude)
           => /\ vehicles_to_store' = vehicles_to_store
              /\ last_positions' = last_positions

\* the batch handed to the sink is the accepted records
SinkStep ==
    pc = "store" /\ sink_log' # sink_log /\ pc' # "stopped" =>
        sink_log'[Len(sink_log')].batch = vehicles_to_store

C8_SleepTime ==
    /\ passes \in {0, 1}
    /\ pc = "sleep" =>
         /\ passes = 1
         /\ sleep_time >= 0
         /\ elapsed < PollInterval => sleep_time + elapsed = PollInterval
         /\ elapsed >= PollInterval => sleep_time = 0

\* a cycle took longer than the interval: the sleep is zero
C8_Witness ==
    /\ pc = "sleep"
    /\ elapsed > PollInterval
    /\ sleep_time = 0
    /\ passes = 1

\* the box contains the point, its four edges included
Inside(bbox, longitude, latitude) ==
    /\ bbox[1] <= longitude
    /\ longitude <= bbox[3]
    /\ bbox[2] <= latitude
    /\ latitude <= bbox[4]

\* the zones, by position in ZONES, one of whose boxes contains the point
ZonesAt(longitude, latitude) ==
    {z \in DOMAIN ZONES :
        \E b \in DOMAIN ZONES[z].bboxes : Inside(ZONES[z].bboxes[b], longitude, latitude)}

\* C9: correct_route_id returns the route id of the first zone in declaration
\* order one of whose boxes contains the point, edges included; it returns the
\* route_id it was given when no zone contains the point or route_id is empty.
C9_FirstMatchWins ==
    pc = "done" =>
        LET hits == ZonesAt(arg.longitude, arg.latitude) IN
        ret[1] = IF arg.route_id = "" \/ hits = {}
                 THEN arg.route_id
                 ELSE ZONES[CHOOSE z \in hits : \A y \in hits : z <= y].correct_id

\* a point on an edge shared by two zones, reported with a third route id, is
\* given the first zone's
C9_Witness ==
    /\ pc = "done"
    /\ arg = [longitude |-> 2, latitude |-> 1, route_id |-> "3"]
    /\ ZonesAt(2, 1) = {1, 2}
    /\ ret = <<"77">>

\* C10: a make_request call ends with a value and exactly one urlopen(): the
\* parsed body on status 200 with a parsable body, None on any other status,
\* on a transport error or timeout and on a body that does not parse.
C10_RequestOutcome ==
    pc = "done" =>
        /\ Len(requests) = 1
        /\ Len(ret) = 1
        /\ (arg.kind = "response" /\ arg.status = HTTP_OK /\ arg.text # Malformed
              => ret[1] = arg.text)
        /\ (arg.kind # "response" \/ arg.status # HTTP_OK \/ arg.text = Malformed
              => ret[1] = None)

\* a parsable body under a status other than 200 is answered None
C10_Witness ==
    /\ pc = "done"
    /\ arg.kind = "response"
    /\ arg.status = 204
    /\ IsDict(arg.text)
    /\ ret = <<None>>
    /\ requests = <<"urlopen">>

\* the value under `key` of the run's vehicle_position, Absent when the run
\* has no vehicle_position dict or the dict has no such key
PosField(run, key) ==
    LET pos == Get(run, "vehicle_position", EmptyDict) IN
    IF pos = None THEN Absent ELSE Get(pos, key, Absent)

\* C11: a run that qualifies for extraction (its vehicle_position is not null)
\* and whose latitude or longitude is null or absent yields no record and no
\* error; a run with both coordinates and a bearing that is 0, null or absent
\* yields a record whose heading is None; a run whose vehicle_position is null
\* is filtered out before extraction.
C11_ExtractionDrops ==
    pc = "done" =>
        LET la == PosField(arg, "latitude")
            lo == PosField(arg, "longitude")
            b == PosField(arg, "bearing")
        IN /\ ret[1].raised =>
                /\ Get(arg, "vehicle_position", EmptyDict) = None
                /\ runs_with_positions(<<arg>>) = <<>>
           /\ ~ret[1].raised /\ (la \in {None, Absent} \/ lo \in {None, Absent}) =>
                ret[1].value = <<>>
           /\ ~Falsy(la) /\ la # Absent /\ ~Falsy(lo) /\ lo # Absent =>
                /\ Len(ret[1].value) = 1
                /\ ret[1].value[1].latitude = la.n
                /\ ret[1].value[1].longitude = lo.n
                /\ (b \in {Absent, None, [n |-> 0]} => ret[1].value[1].heading = None)
                /\ (b \notin {Absent, None, [n |-> 0]} => ret[1].value[1].heading = b)

\* a run with a longitude and a null latitude was dropped without an error
C11_Witness ==
    /\ pc = "done"
    /\ "vehicle_position" \in DOMAIN arg
    /\ PosField(arg, "latitude") = None
    /\ PosField(arg, "longitude") = [n |-> 1]
    /\ ret = <<[raised |-> FALSE, value |-> <<>>]>>

\* a step that ends the fan-in: a return needs every future yielded, an
\* interrupt that leaves the executor needs every task finished
FetchEndsStep ==
    pc \in {"fanin", "stopping"} /\ pc' \notin {"fanin", "stopping"} =>
        /\ \A i \in DOMAIN tasks : tasks[i].st \in {"done", "collected"}
        /\ (pc' \in {"filter", "returned"} =>
              \A i \in DOMAIN tasks : tasks[i].st = "collected")

\* C12: the fetch ends only when every task submitted for the cycle has
\* finished: outside the fan-in no task exists, pending or running, and the
\* step that ends the fan-in finds every task finished.
C12_NoEarlyReturn ==
    /\ [](pc \notin {"fanin", "stopping"} => tasks = <<>>)
    /\ [][FetchEndsStep]_vars

\* one route's result was fanned in while the other route's task had not
\* finished, and the fetch has not returned
C12_Witness ==
    /\ pc = "fanin"
    /\ \E i \in DOMAIN tasks : tasks[i].st = "collected"
    /\ \E i \in DOMAIN tasks : tasks[i].st = "running"
    /\ vehicles # <<>>

\* the requests of the cycle that went to a runs endpoint
RunsRequests == SelectSeq(requests, LAMBDA r : r # "routes")

\* C13: during the fan-in there is exactly one task per entry of the resolved
\* route list, the started tasks have issued one request each, for their own
\* routes, and at most MaxWorkers tasks are running.
C13_OneTaskPerRoute ==
    pc \in {"fanin", "stopping"} =>
        /\ Len(tasks) = Len(route_ids)
        /\ Cardinality(Running) <= MaxWorkers
        /\ Len(RunsRequests) = Cardinality({i \in DOMAIN tasks : tasks[i].st # "pending"})
        /\ \A i \in DOMAIN tasks :
             tasks[i].st # "pending" =>
                \E k \in DOMAIN RunsRequests : RunsRequests[k] = Str(route_ids[i])

\* the pool is full: a task is running and the next one waits in the queue
C13_Witness ==
    /\ pc = "fanin"
    /\ Len(tasks) = 2
    /\ Cardinality(Running) = MaxWorkers
    /\ \E i \in DOMAIN tasks : tasks[i].st = "pending"

\* the cache changes only in a turn of the filter loop, when no task of any
\* cycle exists, and by the record of that turn
CacheWriteStep ==
    last_positions' # last_positions =>
        /\ pc = "filter"
        /\ tasks = <<>>
        /\ last_positions' = written(last_positions, <<vehicles[idx]>>)

\* a cycle is entered from the top of the loop only, with nothing left of the
\* cycle before it
CycleEntryStep ==
    pc' = "fetch" /\ pc # "fetch" =>
        /\ pc = "loop"
        /\ passes = 0
        /\ route_ids = <<>> /\ tasks = <<>> /\ vehicles = <<>> /\ vehicles_to_store = <<>>

\* the filter compares the record with the cache as it is at that turn
FilterReadsStep ==
    pc = "filter" /\ pc' \in {"filter", "store"} =>
        /\ decision'.vehicle = vehicles[idx]
        /\ decision'.seen = (vehicles[idx].vehicle_id \in DOMAIN last_positions)
        /\ decision'.seen => decision'.last = last_positions[vehicles[idx].vehicle_id]

\* C14: the change-detection cache is written only in the filter loop of the
\* scheduler thread, after the fan-in, when no fetch task exists; a cycle
\* starts only after the one before it is over; and between two filter loops
\* nothing changes the cache, so a cycle's filter reads what the cycle before
\* it left.
C14_CacheWrittenAfterFanIn ==
    /\ [](pc \in {"filter", "store", "periodic", "returned", "sleep", "loop", "fetch"}
            => tasks = <<>>)
    /\ [][CacheWriteStep /\ CycleEntryStep /\ FilterReadsStep]_vars

\* the first record of a later cycle was compared with the entry an earlier
\* cycle left in the cache, and overwrote it
C14_Witness ==
    /\ pc \in {"filter", "store"}
    /\ idx = 2
    /\ decision # None
    /\ decision.seen
    /\ decision.stored
    /\ tasks = <<>>
    /\ last_positions[decision.vehicle.vehicle_id] = decision.vehicle

\* the cache entry of `id` is new or changed in this step
EntryChanged(id) ==
    id \notin DOMAIN last_positions \/ last_positions'[id] # last_positions[id]

\* C15: the entry of a vehicle_id is created or changed only by the filter
\* turn that accepts a record of that vehicle_id, and becomes that record; a
\* rejected record changes no entry.
C15_EntryFrame ==
    [][/\ \A id \in DOMAIN last_positions' :
            EntryChanged(id) =>
               /\ pc = "filter"
               /\ vehicles[idx].vehicle_id = id
               /\ decision'.vehicle = vehicles[idx]
               /\ decision'.stored
               /\ last_positions'[id] = vehicles[idx]
       /\ (pc = "filter" /\ pc' \in {"filter", "store"} /\ ~decision'.stored)
            => last_positions' = last_positions]_vars

\* a record of one vehicle was accepted and overwrote its entry while the
\* other vehicle's entry stayed
C15_Witness ==
    /\ pc \in {"filter", "store"}
    /\ decision # None
    /\ decision.seen
    /\ decision.stored
    /\ decision.vehicle.vehicle_id = "v1"
    /\ last_positions["v1"] = decision.vehicle
    /\ "v2" \in DOMAIN last_positions
    /\ last_positions["v2"].latitude = 1

\* C16: the cache starts empty and, in every step, its set of vehicle_ids is
\* the set before the step plus the vehicle_id accepted in the step, if any:
\* it is the set of the vehicle_ids accepted so far, and never loses one.
C16_IdsNeverShrink ==
    /\ [](pc = "boot" => last_positions = <<>>)
    /\ [][DOMAIN last_positions' =
            DOMAIN last_positions \cup
               (IF pc = "filter" /\ pc' \in {"filter", "store"} /\ decision'.stored
                THEN {decision'.vehicle.vehicle_id} ELSE {})]_vars

\* after a cycle that failed or received nothing, both vehicles accepted in
\* earlier cycles are still in the cache
C16_Witness ==
    /\ pc = "sleep"
    /\ outcome \in {"error", "empty"}
    /\ DOMAIN last_positions = {"v1", "v2"}

\* the step is a get_routes call that reaches the cache write (line 129): its
\* request returned a non-empty dict
CacheWrittenInStep ==
    /\ pc = "fetch"
    /\ pc' # "stopped"
    /\ routes_reply' # <<>>
    /\ IsDict(routes_reply'[1])
    /\ ~Falsy(routes_reply'[1])

\* the cache write finds the entry absent and no fetch task in existence, and
\* nothing else changes the cache
RouteCacheStep ==
    /\ CacheWrittenInStep =>
          /\ ROUTE_TYPE \notin DOMAIN route_cache
          /\ ROUTE_TYPE \in DOMAIN route_cache'
          /\ tasks = <<>>
    /\ (route_cache' # route_cache => CacheWrittenInStep)

\* C17: the route cache holds entries of the collector's route type only; its
\* entry is written by a get_routes call that finds it absent, and by no
\* other, so at most once; no other step changes the cache; and the write
\* happens when no fetch task exists.
C17_WrittenAtMostOnce ==
    /\ [](DOMAIN route_cache \subseteq {ROUTE_TYPE})
    /\ [][RouteCacheStep]_vars

\* a later cycle: a worker is running while the entry written in an earlier
\* cycle is in the cache, and this cycle's get_routes made no request
C17_Witness ==
    /\ pc = "fanin"
    /\ Running # {}
    /\ ROUTE_TYPE \in DOMAIN route_cache
    /\ routes_reply = <<>>
    /\ \A k \in DOMAIN requests : requests[k] # "routes"
    /\ last_positions # <<>>

\* C18: the list get_routes returns, and the list it caches, hold no null
\* route id, and no request goes to the runs endpoint of a null route.
C18_NullRoutesSkipped ==
    /\ \A i \in DOMAIN route_ids : route_ids[i] # None
    /\ \A t \in DOMAIN route_cache :
         \A i \in DOMAIN route_cache[t] : route_cache[t][i] # None
    /\ \A k \in DOMAIN requests : requests[k] # "None"

\* C19: with writes disabled by the configuration no sink operation is
\* invoked (no bulk insert, no cleanup, no stats) and no cycle fails in the
\* sink, while every fetched record is still filtered and an accepted one is
\* still written to the change-detection cache.
C19_DryRun ==
    ~load_config(environ).enable_db_write =>
        /\ sink_log = <<>>
        /\ (pc \in {"periodic", "returned"} /\ vehicles # <<>> =>
              /\ idx = Len(vehicles) + 1
              /\ decision # None
              /\ outcome # "error"
              /\ \A i \in DOMAIN vehicles_to_store :
                   vehicles_to_store[i].vehicle_id \in DOMAIN last_positions)

\* a dry-run cycle ended with a batch accepted and the cache at a multiple of
\* 20 entries, and nothing went to the sink
C19_Witness ==
    /\ ~load_config(environ).enable_db_write
    /\ pc = "returned"
    /\ outcome = "ok"
    /\ vehicles_to_store # <<>>
    /\ Cardinality(DOMAIN last_positions) % CLEANUP_EVERY = 0
    /\ last_positions["v1"] = vehicles_to_store[Len(vehicles_to_store)]
    /\ sink_log = <<>>

\* a required credential is missing from the environment: the user id, the
\* API key, or the database URL while writes are enabled (the default)
CredentialsMissing ==
    \/ environ.PTV_USER_ID = ""
    \/ environ.PTV_API_KEY = ""
    \/ (environ.DATABASE_URL = "" /\ environ.ENABLE_DB_WRITE \in {"", "1", "true", "yes", "on"})

\* C20: with a required credential missing the process goes from its start to
\* the configuration error and nowhere else: no cycle is entered, no request
\* is issued, no sink operation is invoked, and neither cache is touched.
C20_ConfigurationError ==
    CredentialsMissing =>
        /\ pc \in {"boot", "config_error"}
        /\ passes = 0
        /\ outcome = "none"
        /\ requests = <<>>
        /\ sink_log = <<>>
        /\ route_cache = <<>>
        /\ last_positions = <<>>
        /\ tasks = <<>>

\* user id and API key are set, writes are enabled by default and the
\* database URL is missing: startup ended in the configuration error
C20_Witness ==
    /\ pc = "config_error"
    /\ environ.PTV_USER_ID = "id"
    /\ environ.PTV_API_KEY = "key"
    /\ environ.DATABASE_URL = ""
    /\ environ.ENABLE_DB_WRITE = ""
    /\ requests = <<>>

\* how far a task has come: queued, running, finished, fanned in
TaskRank(st) ==
    CASE st = "pending" -> 0
      [] st = "running" -> 1
      [] st = "done" -> 2
      [] st = "collected" -> 3

\* a step issues at most one request, to an endpoint not yet requested in the
\* cycle; a task never goes back to an earlier stage, and a finished task keeps
\* its result, failed or not
NoRetryStep ==
    /\ (requests' # requests /\ requests' # <<>>) =>
          /\ Len(requests') = Len(requests) + 1
          /\ SubSeq(requests', 1, Len(requests)) = requests
          /\ \A k \in DOMAIN requests : requests[k] # requests'[Len(requests')]
    /\ (tasks # <<>> /\ tasks' # <<>>) =>
          /\ DOMAIN tasks' = DOMAIN tasks
          /\ route_ids' = route_ids
          /\ \A i \in DOMAIN tasks :
               /\ TaskRank(tasks'[i].st) >= TaskRank(tasks[i].st)
               /\ (tasks[i].st \in {"done", "collected"} =>
                     /\ tasks'[i].res = tasks[i].res
                     /\ tasks'[i].failure = tasks[i].failure)

\* C21: within a cycle at most one routes request is issued and the runs
\* endpoint of each route is requested at most once, whether the request fails
\* or not: a failed task stays finished, and its route is requested again only
\* by the tasks a later cycle submits (every cycle requests each of its routes).
C21_NoRetryInCycle ==
    /\ [](/\ \A j, k \in DOMAIN requests : requests[j] = requests[k] => j = k
          /\ (pc \in {"fanin", "stopping"} => Len(requests) <= 1 + Len(route_ids))
          /\ (pc = "fanin" /\ as_completed_exhausted(tasks) =>
                \A i \in DOMAIN route_ids :
                   Cardinality({k \in DOMAIN requests : requests[k] = Str(route_ids[i])}) = 1))
    /\ [][NoRetryStep]_vars

\* a later cycle (the cache holds a vehicle of an earlier one): the routes were
\* requested once each, both requests failed, and the fan-in is over
C21_Witness ==
    /\ pc = "fanin"
    /\ last_positions # <<>>
    /\ Len(tasks) = 2
    /\ as_completed_exhausted(tasks)
    /\ tasks[1].failure = "timeout"
    /\ tasks[2].failure = "status"
    /\ requests = <<"3", "77">>
    /\ vehicles = <<>>

\* a task that has not finished: queued or in a worker
InFlight == {i \in DOMAIN tasks : tasks[i].st \in {"pending", "running"}}

\* a stop during the fan-in keeps every task; while the executor waits, tasks
\* only advance and nothing but their requests is issued; the executor is left
\* only for the stopped state, with no task in flight; nothing follows the stop
StopWaitsStep ==
    /\ (pc = "fanin" /\ pc' \notin {"fanin", "filter", "returned"}) =>
          /\ pc' = "stopping"
          /\ tasks' = tasks
          /\ requests' = requests
    /\ (pc = "stopping") =>
          /\ pc' \in {"stopping", "stopped"}
          /\ passes' = passes
          /\ last_positions' = last_positions
          /\ sink_log' \in {sink_log, <<>>}
          /\ (pc' = "stopping" =>
                /\ DOMAIN tasks' = DOMAIN tasks
                /\ \A i \in DOMAIN tasks : TaskRank(tasks'[i].st) >= TaskRank(tasks[i].st)
                /\ \A k \in DOMAIN requests' : requests'[k] # "routes" \/ k \in DOMAIN requests)
          /\ (pc' = "stopped" => InFlight = {})
    /\ (pc = "stopped" => pc' = "stopped")

\* C22: a stop signal raised during the fan-in does not end the fetch while a
\* task is queued or running: the executor waits, every task runs to its
\* result (a response, an error or a timeout), and then the scheduler stops;
\* it does stop, and no cycle, request for routes, cache write or sink
\* operation follows the signal.
C22_StopWaitsForTasks ==
    /\ [][StopWaitsStep]_vars
    /\ [](pc = "stopped" => tasks = <<>>)
    /\ (pc = "stopping") ~> (pc = "stopped")

\* the stop signal has come, one task is in its worker and the other is still
\* queued: the executor is waiting for both
C22_Witness ==
    /\ pc = "stopping"
    /\ Len(tasks) = 2
    /\ tasks[1].st = "running"
    /\ tasks[2].st = "pending"
    /\ requests = <<"routes", "3">>

\* the run carries no reference code: the key is left out or null
NoReference(run) == Get(run, "run_ref", None) = None

\* the vehicle_id the run is to get: its reference code, else its run id
PreferredId(run) ==
    IF NoReference(run) THEN Str(Get(run, "run_id", [s |-> ""])) ELSE Str(run.run_ref)

\* C23: the vehicle_id of an extracted record is the run's reference code when
\* the run carries one, and the run id as a string when the reference code is
\* left out or null; two runs without a reference code and with different run
\* ids get different vehicle_ids.
C23_VehicleIdFallback ==
    pc = "done" /\ ~ret[1].raised /\ ret[1].value # <<>> =>
        /\ ret[1].value[1].vehicle_id = PreferredId(arg)
        /\ \A other \in ExtractInputs :
             (/\ NoReference(arg) /\ NoReference(other)
              /\ "run_id" \in DOMAIN arg /\ "run_id" \in DOMAIN other
              /\ arg.run_id # other.run_id
              /\ ~extract_raises(other)
              /\ extract_vehicle_data(other, ROUTE_TYPE) # <<>>)
             => extract_vehicle_data(other, ROUTE_TYPE)[1].vehicle_id
                    # ret[1].value[1].vehicle_id

\* the records of a sequence, as a set
Records(q) == {q[i] : i \in DOMAIN q}

\* C24: when the fan-in is over, the batch the filter loop will accept and the
\* cache it will leave are those it would accept and leave had the tasks been
\* fanned in in submission order: the order of completion does not matter,
\* also when two routes report one vehicle_id at different coordinates.
C24_OrderIndependent ==
    pc = "fanin" /\ as_completed_exhausted(tasks) =>
        LET completed == filter_loop(last_positions, <<>>, vehicles)
            submitted == filter_loop(last_positions, <<>>,
                                     submission_order(tasks, ROUTE_TYPE))
        IN /\ completed.last_positions = submitted.last_positions
           /\ Records(completed.vehicles_to_store) = Records(submitted.vehicles_to_store)

\* the bulk upsert of this cycle was invoked and failed
UpsertFailed ==
    /\ sink_log # <<>>
    /\ sink_log[1].op = "insert_vehicles_bulk"
    /\ sink_log[1].result \in {"rollback", "connect"}

\* the cache holds the batch: every accepted vehicle_id has an entry, and the
\* entry is the last record of the batch with that vehicle_id
CacheHolds(batch) ==
    \A i \in DOMAIN batch :
        /\ batch[i].vehicle_id \in DOMAIN last_positions
        /\ (\A j \in DOMAIN batch : batch[j].vehicle_id = batch[i].vehicle_id => j <= i)
              => /\ last_positions[batch[i].vehicle_id] = batch[i]
                 /\ ~should_store(last_positions, batch[i])

\* handing the batch to the sink changes no cache entry, whatever the sink does
SinkLeavesCacheStep == pc \in {"store", "periodic"} => last_positions' = last_positions

ListedIds(body) ==
    LET routes == Get(body, "routes", <<>>) IN
    [i \in 1..Len(routes) |-> Get(routes[i], "route_id", None)]

\* a get_routes call of a cycle: with the entry absent it issues the routes
\* request; a failed request or a falsy body leaves the entry absent and ends
\* the cycle with nothing fetched; a non-empty object is cached as listed; with
\* the entry present no routes request is issued
RoutesRequestStep ==
    pc = "fetch" /\ pc' # "stopped" =>
        IF ROUTE_TYPE \in DOMAIN route_cache
        THEN requests' = requests /\ routes_reply' = <<>> /\ route_cache' = route_cache
        ELSE /\ requests' = <<"routes">>
             /\ Len(routes_reply') = 1
             /\ (Falsy(routes_reply'[1]) =>
                   /\ route_cache' = route_cache
                   /\ pc' = "returned"
                   /\ outcome' = "empty"
                   /\ tasks' = <<>>
                   /\ vehicles' = <<>>)
             /\ (IsDict(routes_reply'[1]) /\ ~Falsy(routes_reply'[1]) =>
                   /\ ROUTE_TYPE \in DOMAIN route_cache'
                   /\ route_cache'[ROUTE_TYPE] = ListedIds(routes_reply'[1]))

\* C26: a routes request that fails (make_request returns None) or returns a
\* falsy body makes get_routes return the empty list and leaves the cache
\* entry absent: the cycle fetches nothing, and while the entry is absent
\* nothing was ever fetched and the next cycle issues the routes request
\* again; a request answered with a non-empty object fills the entry, and
\* from then on no routes request is issued.
C26_RoutesRetriedUntilCached ==
    /\ [][RoutesRequestStep]_vars
    /\ [](ROUTE_TYPE \notin DOMAIN route_cache =>
            /\ last_positions = <<>>
            /\ tasks = <<>>
            /\ \A k \in DOMAIN requests : requests[k] = "routes")
    /\ (pc = "sleep" /\ ROUTE_TYPE \notin DOMAIN route_cache)
          ~> (pc = "stopped" \/ requests = <<"routes">>)

\* the routes request timed out: the cycle ended with nothing fetched and the
\* cache entry is still absent
C26_Witness ==
    /\ pc = "sleep"
    /\ outcome = "empty"
    /\ ROUTE_TYPE \notin DOMAIN route_cache
    /\ last_positions = <<>>
    /\ elapsed = PollInterval

\* the bulk upserts invoked in this cycle
Upserts == SelectSeq(sink_log, LAMBDA e : e.op = "insert_vehicles_bulk")

\* the records still to be filtered
ToFilter(i) == SubSeq(vehicles, i, Len(vehicles))

\* the filter loop starts with an empty batch at the first fetched record; a
\* turn appends the record exactly when should_store answers true for it
\* against the cache of that moment, and what the loop will end with is what
\* it would have ended with before the turn
FilterExactStep ==
    /\ (pc' = "filter" /\ pc # "filter" => idx' = 1 /\ vehicles_to_store' = <<>>)
    /\ (pc = "filter" /\ pc' \in {"filter", "store"} =>
          /\ idx' = idx + 1
          /\ vehicles' = vehicles
          /\ (pc' = "store") = (idx = Len(vehicles))
          /\ vehicles_to_store' =
                 IF should_store(last_positions, vehicles[idx])
                 THEN Append(vehicles_to_store, vehicles[idx])
                 ELSE vehicles_to_store
          /\ filter_loop(last_positions', vehicles_to_store', ToFilter(idx'))
                 = filter_loop(last_positions, vehicles_to_store, ToFilter(idx)))

\* the bulk upsert is invoked by the step after the filter loop, once, with
\* writes enabled, and with the accepted records, of which there is one at least
UpsertStep ==
    Upserts' # Upserts /\ sink_log' # <<>> =>
        /\ pc = "store"
        /\ sink_log = <<>>
        /\ Len(sink_log') = 1
        /\ enable_db_write
        /\ vehicles_to_store # <<>>
        /\ sink_log'[1].batch = vehicles_to_store
        /\ sink_log'[1].batch =
               filter_loop(last_positions, vehicles_to_store, ToFilter(idx)).vehicles_to_store

\* a fetch that returns no vehicle ends the cycle at once: cache and sink are
\* as they were
EarlyReturnStep ==
    pc \in {"fetch", "fanin"} /\ pc' = "returned" =>
        /\ vehicles = <<>>
        /\ vehicles' = <<>>
        /\ last_positions' = last_positions
        /\ sink_log' = sink_log
        /\ sink_log = <<>>
        /\ vehicles_to_store' = <<>>

\* C27: in a cycle the bulk upsert is invoked at most once, only with writes
\* enabled and a non-empty batch, and the batch is the sequence of the fetched
\* records for which should_store answered true in the cycle's filter loop, in
\* fetch order; a cycle whose fetch returns no vehicle returns early, and
\* leaves the cache and the sink untouched.
C27_OneUpsertExactBatch ==
    /\ [](/\ Len(Upserts) <= 1
          /\ (Upserts # <<>> =>
                /\ enable_db_write
                /\ Upserts[1].batch # <<>>
                /\ Upserts[1].batch = vehicles_to_store
                /\ sink_log[1] = Upserts[1])
          /\ (pc = "store" => idx = Len(vehicles) + 1 /\ vehicles # <<>>)
          /\ (outcome = "empty" => sink_log = <<>> /\ vehicles_to_store = <<>>))
    /\ [][FilterExactStep /\ UpsertStep /\ EarlyReturnStep]_vars

\* of three fetched records the second was rejected, and the upsert was
\* invoked once, with the first and the third in fetch order
C27_Witness ==
    /\ pc = "periodic"
    /\ Len(vehicles) = 3
    /\ Len(sink_log) = 1
    /\ sink_log[1].op = "insert_vehicles_bulk"
    /\ sink_log[1].result = "commit"
    /\ sink_log[1].batch = <<vehicles[1], vehicles[3]>>

\* the positions of the cycle's sink log that hold the operation `op`
Invoked(op) == {k \in DOMAIN sink_log : sink_log[k].op = op}

\* the number of entries of the change-detection cache
CacheSize == Cardinality(DOMAIN last_positions)

\* the cycle got past the fetch, the filter loop and the sink call without an
\* exception, with at least one fetched vehicle and writes enabled
ReachedPeriodic ==
    /\ pc = "returned"
    /\ enable_db_write
    /\ vehicles # <<>>
    /\ \A k \in Invoked("insert_vehicles_bulk") : sink_log[k].result # "connect"

\* cleanup and stats are invoked by the last step of a cycle only, and change
\* no cache entry
PeriodicStep ==
    sink_log' # sink_log /\ sink_log' # <<>> /\ pc # "store" =>
        /\ pc = "periodic"
        /\ pc' = "returned"
        /\ outcome # "error"
        /\ idx = Len(vehicles) + 1
        /\ last_positions' = last_positions
        /\ SubSeq(sink_log', 1, Len(sink_log)) = sink_log

\* C28: cleanup_old_data(hours=24) is invoked in a cycle exactly when writes
\* are enabled, the fetch returned a vehicle, nothing raised before it and the
\* cache holds a multiple of 20 entries after the filter loop; get_stats exactly
\* when, besides, the number is a multiple of 40 and the cleanup did not raise,
\* so only after a cleanup of the same cycle. Both come after the bulk upsert
\* of the cycle, if there is one, and an exception of either ends the cycle as
\* a caught error.
C28_PeriodicCleanupAndStats ==
    /\ [](\A k \in Invoked("cleanup_old_data") :
            /\ sink_log[k].hours = CLEANUP_HOURS
            /\ Invoked("cleanup_old_data") = {k}
            /\ \A j \in 1..(k - 1) :
                 sink_log[j].op = "insert_vehicles_bulk" /\ sink_log[j].result # "connect"
            /\ k <= 2)
    /\ [](\A k \in Invoked("get_stats") :
            /\ Invoked("get_stats") = {k}
            /\ k = Len(sink_log)
            /\ k > 1
            /\ sink_log[k - 1].op = "cleanup_old_data"
            /\ sink_log[k - 1].result = "commit"
            /\ CacheSize % STATS_EVERY = 0)
    /\ [](pc = "returned" =>
            /\ (Invoked("cleanup_old_data") # {})
                  = (ReachedPeriodic /\ CacheSize % CLEANUP_EVERY = 0)
            /\ (Invoked("get_stats") # {})
                  = (/\ ReachedPeriodic
                     /\ CacheSize % STATS_EVERY = 0
                     /\ \A k \in Invoked("cleanup_old_data") : sink_log[k].result = "commit")
            /\ ((\E k \in DOMAIN sink_log : sink_log[k].result = "raise")
                  => outcome = "error" /\ sink_log[Len(sink_log)].result = "raise"))
    /\ [][PeriodicStep]_vars

\* the fortieth vehicle was accepted and written to the sink, the cleanup ran,
\* the stats request raised, and the cycle ended as a caught error
C28_Witness ==
    /\ pc = "returned"
    /\ outcome = "error"
    /\ CacheSize = STATS_EVERY
    /\ Len(sink_log) = 3
    /\ sink_log[1].op = "insert_vehicles_bulk"
    /\ sink_log[1].result = "commit"
    /\ sink_log[2] = [op |-> "cleanup_old_data", hours |-> CLEANUP_HOURS, batch |-> <<>>,
                      result |-> "commit"]
    /\ sink_log[3].op = "get_stats"
    /\ sink_log[3].result = "raise"

====
